---- MODULE Spec2Model ----
(***************************************************************************)
(* Model of the saxophone streaming XML tokenizer (lib/saxophone.js).      *)
(*                                                                         *)
(* Strings are sequences of one-character strings.  Indices are 0-based,   *)
(* as in the JavaScript source, so that the cursor arithmetic of           *)
(* _parseChunk (chunkPos - 9, commentClose + 2, ...) is kept as written.   *)
(***************************************************************************)
EXTENDS Integers, Sequences, FiniteSets, TLC

VARIABLES
    doc,        \* the text the producer is going to deliver (chosen at start)
    pos,        \* number of characters of doc already written
    _tagStack,  \* createSink: stack of opened tag names, outermost first
    _waiting,   \* createSink: pending partial token, or NotWaiting
    events,     \* the events dispatched on the target, in order
    raw,        \* ghost: source text covered by the emitted events
    spans,      \* ghost: the source text of each emitted event, in order
    error,      \* the error thrown by the sink, or NoError
    state,      \* WritableStream state: "writable", "closed" or "errored"
    locked,     \* a writer obtained by parse() holds the stream's lock
    closeRequested, \* the stream has called the sink's close()
    split,      \* ghost: the text was written as more than one non-empty chunk
    outcome,    \* the last operation: "none" yet, "fulfilled", "failed" (the
                \* sink threw) or "rejected" (the stream did not call the sink);
                \* "pending" while a write is scanning, one pass at a time
    given,      \* the string given to Saxophone.parseEntities / parseAttrs
    meaning,    \* ghost: what the pieces that given was built from stand for
    result,     \* what the static function returned or threw, or NotCalled
    scanned,    \* _parseChunk: the input of the pass in progress
    cursor      \* _parseChunk: chunkPos, or Stop after a break or a throw

vars == <<doc, pos, _tagStack, _waiting, events, raw, spans, error, state,
          locked, closeRequested, split, outcome, given, meaning, result,
          scanned, cursor>>

---------------------------------------------------------------------------
(* Bounds of the model *)

\* A document is the concatenation of at most MaxFrags fragments of Frags.
MaxFrags == 2

---------------------------------------------------------------------------
(* JavaScript values and string primitives *)

\* The value of an out-of-range index (input[i]).
undefined == "undefined"

\* `${undefined}` inside a template string.
UndefinedText == <<"u", "n", "d", "e", "f", "i", "n", "e", "d">>

\* Characters matched by the regular expression /\s/.
Whitespace == {" ", "\n", "\t", "\r"}

Min(a, b) == IF a < b THEN a ELSE b

Max(a, b) == IF a > b THEN a ELSE b

\* input[i]
At(input, i) ==
    IF i >= 0 /\ i < Len(input) THEN input[i + 1] ELSE undefined

\* String.prototype.slice(from, to): negative indices count from the end,
\* both are clamped to the string.
Slice(input, from, to) ==
    LET n == Len(input)
        f == IF from < 0 THEN Max(n + from, 0) ELSE Min(from, n)
        t == IF to < 0 THEN Max(n + to, 0) ELSE Min(to, n)
    IN  IF f >= t THEN <<>> ELSE SubSeq(input, f + 1, t)

\* String.prototype.slice(from)
SliceFrom(input, from) == Slice(input, from, Len(input))

\* String.prototype.indexOf(pat, from): lowest index >= from at which pat
\* occurs, -1 when there is none.
IndexOf(input, pat, from) ==
    LET f == Min(Max(from, 0), Len(input))
        hits == {i \in f..(Len(input) - Len(pat)) :
                    \A k \in 1..Len(pat) : input[i + k] = pat[k]}
    IN  IF hits = {} THEN -1 ELSE CHOOSE i \in hits : \A j \in hits : i <= j

\* String.prototype.search(/\s/): index of the first whitespace, or -1.
SearchWhitespace(input) ==
    LET hits == {i \in 0..(Len(input) - 1) : input[i + 1] \in Whitespace}
    IN  IF hits = {} THEN -1 ELSE CHOOSE i \in hits : \A j \in hits : i <= j

\* Array.prototype.join(',')
RECURSIVE Join(_)
Join(names) ==
    IF names = <<>> THEN <<>>
    ELSE IF Len(names) = 1 THEN names[1]
    ELSE names[1] \o <<",">> \o Join(Tail(names))

\* util.findIndexOutside(haystack, char => char === needle, delim, fromIndex):
\* lowest index >= fromIndex holding needle that is not inside a span
\* delimited by delim; -1 when there is none.
FindIndexOutside(haystack, needle, delim, fromIndex) ==
    LET Quotes(i) == Cardinality({j \in fromIndex..i : haystack[j + 1] = delim})
        hits == {i \in fromIndex..(Len(haystack) - 1) :
                    /\ haystack[i + 1] = needle
                    /\ Quotes(i) % 2 = 0}
    IN  IF hits = {} THEN -1 ELSE CHOOSE i \in hits : \A j \in hits : i <= j

---------------------------------------------------------------------------
(* Saxophone.parseEntities(text) *)

\* The five named references and the character each stands for.
NamedEntities ==
    { <<<<"q", "u", "o", "t">>, "\"">>,
      <<<<"a", "m", "p">>, "&">>,
      <<<<"a", "p", "o", "s">>, "'">>,
      <<<<"l", "t">>, "<">>,
      <<<<"g", "t">>, ">">> }

DecimalDigits == {"0", "1", "2", "3", "4", "5", "6", "7", "8", "9"}

HexDigits == DecimalDigits \cup {"a", "b", "c", "d", "e", "f",
                                 "A", "B", "C", "D", "E", "F"}

\* The value of one digit in base 10 or 16.
DigitValue(d) ==
    CASE d = "0" -> 0 [] d = "1" -> 1 [] d = "2" -> 2 [] d = "3" -> 3
      [] d = "4" -> 4 [] d = "5" -> 5 [] d = "6" -> 6 [] d = "7" -> 7
      [] d = "8" -> 8 [] d = "9" -> 9
      [] d \in {"a", "A"} -> 10 [] d \in {"b", "B"} -> 11
      [] d \in {"c", "C"} -> 12 [] d \in {"d", "D"} -> 13
      [] d \in {"e", "E"} -> 14 [] d \in {"f", "F"} -> 15

\* The number written by digits in the given base.
RECURSIVE NumberOf(_, _)
NumberOf(digits, base) ==
    IF digits = <<>> THEN 0
    ELSE NumberOf(SubSeq(digits, 1, Len(digits) - 1), base) * base
         + DigitValue(digits[Len(digits)])

\* The character with the given code point; characters outside the few
\* that the texts of this model use are written U+<code point>.
fromCodePoint(n) ==
    CASE n = 34 -> "\"" [] n = 38 -> "&" [] n = 39 -> "'"
      [] n = 60 -> "<" [] n = 62 -> ">"
      [] OTHER -> "U+" \o ToString(n)

\* entity is '#' followed by one or more decimal digits.
IsDecimalReference(entity) ==
    /\ Len(entity) >= 2
    /\ entity[1] = "#"
    /\ \A i \in 2..Len(entity) : entity[i] \in DecimalDigits

\* entity is '#x' or '#X' followed by one or more hexadecimal digits.
IsHexReference(entity) ==
    /\ Len(entity) >= 3
    /\ entity[1] = "#"
    /\ entity[2] \in {"x", "X"}
    /\ \A i \in 3..Len(entity) : entity[i] \in HexDigits

\* Decoder that takes the end of the text as the end of a reference that
\* has no ';'.
RECURSIVE DecodeFromLenient(_, _)
DecodeFromLenient(text, position) ==
    IF position >= Len(text) THEN <<>>
    ELSE IF At(text, position) # "&"
    THEN <<At(text, position)>> \o DecodeFromLenient(text, position + 1)
    ELSE LET semi == IndexOf(text, <<";">>, position)
             end == IF semi = -1 THEN Len(text) ELSE semi
             entity == Slice(text, position + 1, end)
             named == {e \in NamedEntities : e[1] = entity}
         IN  IF named # {}
             THEN <<(CHOOSE e \in named : TRUE)[2]>>
                  \o DecodeFromLenient(text, end + 1)
             ELSE IF IsDecimalReference(entity)
             THEN <<fromCodePoint(NumberOf(SliceFrom(entity, 1), 10))>>
                  \o DecodeFromLenient(text, end + 1)
             ELSE IF IsHexReference(entity)
             THEN <<fromCodePoint(NumberOf(SliceFrom(entity, 2), 16))>>
                  \o DecodeFromLenient(text, end + 1)
             ELSE <<"&">> \o DecodeFromLenient(text, position + 1)

\* The decoding of text from position on: a character other than '&' is
\* copied; at '&' the reference runs to the next ';' and is replaced when it
\* is one of the recognized forms, and otherwise the '&' is copied and the
\* scan goes on after it.
RECURSIVE DecodeFrom(_, _)
DecodeFrom(text, position) ==
    IF position >= Len(text) THEN <<>>
    ELSE IF At(text, position) # "&"
    THEN <<At(text, position)>> \o DecodeFrom(text, position + 1)
    ELSE LET end == IndexOf(text, <<";">>, position)
             entity == Slice(text, position + 1, end)
             named == {e \in NamedEntities : e[1] = entity}
         IN  IF end = -1
             THEN <<"&">> \o DecodeFrom(text, position + 1)
             ELSE IF named # {}
             THEN <<(CHOOSE e \in named : TRUE)[2]>> \o DecodeFrom(text, end + 1)
             ELSE IF IsDecimalReference(entity)
             THEN <<fromCodePoint(NumberOf(SliceFrom(entity, 1), 10))>>
                  \o DecodeFrom(text, end + 1)
             ELSE IF IsHexReference(entity)
             THEN <<fromCodePoint(NumberOf(SliceFrom(entity, 2), 16))>>
                  \o DecodeFrom(text, end + 1)
             ELSE <<"&">> \o DecodeFrom(text, position + 1)

\* Saxophone.parseEntities(text): always returns a string.
parseEntities(text) == [done |-> TRUE, error |-> "", value |-> DecodeFrom(text, 0)]

---------------------------------------------------------------------------
(* Saxophone.parseAttrs(attrs) *)

\* The mapping without any name.
NoAttrs == [name \in {} |-> <<>>]

\* Assignment that keeps the value a name already has.
SetAttrKeepsFirst(mapping, name, value) ==
    [n \in DOMAIN mapping \cup {name} |->
        IF n \in DOMAIN mapping THEN mapping[n] ELSE value]

\* mapping[name] = value
SetAttr(mapping, name, value) ==
    [n \in DOMAIN mapping \cup {name} |-> IF n = name THEN value ELSE mapping[n]]

\* parseAttrs threw an error with this message: there is no mapping.
AttrsError(message) == [done |-> TRUE, error |-> message, value |-> NoAttrs]

\* The index of the first '=' or whitespace character of text at or after
\* position, or the length of text when there is none.
NameEnd(text, position) ==
    LET stops == {i \in position..(Len(text) - 1) :
                     At(text, i) = "=" \/ At(text, i) \in Whitespace}
    IN  IF stops = {} THEN Len(text) ELSE CHOOSE i \in stops : \A j \in stops : i <= j

\* Attribute scanner that accepts any quote character as the end of a
\* value.
RECURSIVE AttrsFromAnyQuote(_, _, _)
AttrsFromAnyQuote(text, position, attrs) ==
    IF position >= Len(text)
    THEN [done |-> TRUE, error |-> "", value |-> attrs]
    ELSE IF At(text, position) \in Whitespace
    THEN AttrsFromAnyQuote(text, position + 1, attrs)
    ELSE LET nameEnd == NameEnd(text, position)
             startQuote == At(text, nameEnd + 1)
             closes == {i \in (nameEnd + 2)..(Len(text) - 1) :
                           At(text, i) \in {"\"", "'"}}
             endQuote == IF closes = {} THEN -1
                         ELSE CHOOSE i \in closes : \A j \in closes : i <= j
         IN  IF nameEnd = Len(text)
             THEN AttrsError("Expected a value for the attribute")
             ELSE IF At(text, nameEnd) \in Whitespace
             THEN AttrsError("Attribute names may not contain whitespace")
             ELSE IF startQuote \notin {"\"", "'"}
             THEN AttrsError("Attribute values should be quoted")
             ELSE IF endQuote = -1
             THEN AttrsError("Unclosed attribute value")
             ELSE AttrsFromAnyQuote(text, endQuote + 1,
                                    SetAttr(attrs, Slice(text, position, nameEnd),
                                            Slice(text, nameEnd + 2, endQuote)))

\* The attributes of text from position on, added to attrs: skip
\* whitespace, scan a name up to '=', whitespace or the end, require '=',
\* require a quote after it, scan to the next occurrence of the same quote,
\* record the pair and go on after the closing quote.
RECURSIVE AttrsFrom(_, _, _)
AttrsFrom(text, position, attrs) ==
    IF position >= Len(text)
    THEN [done |-> TRUE, error |-> "", value |-> attrs]
    ELSE IF At(text, position) \in Whitespace
    THEN AttrsFrom(text, position + 1, attrs)
    ELSE LET nameEnd == NameEnd(text, position)
             startQuote == At(text, nameEnd + 1)
             endQuote == IndexOf(text, <<startQuote>>, nameEnd + 2)
         IN  IF nameEnd = Len(text)
             THEN AttrsError("Expected a value for the attribute")
             ELSE IF At(text, nameEnd) \in Whitespace
             THEN AttrsError("Attribute names may not contain whitespace")
             ELSE IF startQuote \notin {"\"", "'"}
             THEN AttrsError("Attribute values should be quoted")
             ELSE IF endQuote = -1
             THEN AttrsError("Unclosed attribute value")
             ELSE AttrsFrom(text, endQuote + 1,
                            SetAttr(attrs, Slice(text, position, nameEnd),
                                    Slice(text, nameEnd + 2, endQuote)))

\* Saxophone.parseAttrs(attrs)
parseAttrs(text) == AttrsFrom(text, 0, NoAttrs)

\* Neither static function has been called.
NotCalled == [done |-> FALSE, error |-> "", value |-> <<>>]

---------------------------------------------------------------------------
(* The sink: createSink({ emit }) *)

\* _waiting === null
NotWaiting == [token |-> "null", data |-> <<>>]

\* No error has been thrown.
NoError == [message |-> "", arg |-> <<>>]

\* new Error(message + arg)
Error(message, arg) == [message |-> message, arg |-> arg]

\* The state of a freshly created sink.
NewSink ==
    [_tagStack |-> <<>>, _waiting |-> NotWaiting, events |-> <<>>,
     raw |-> <<>>, spans |-> <<>>, error |-> NoError]

\* emit(name, detail); the token covers input[from..to-1].
Emit(s, ev, input, from, to) ==
    [s EXCEPT !.events = Append(@, ev),
              !.raw = @ \o Slice(input, from, to),
              !.spans = Append(@, Slice(input, from, to))]

\* throw new Error(...)
Throw(s, err) == [s EXCEPT !.error = err]

\* _wait that buffers the token without its first character.
_waitWithoutDelimiter(s, token, data) ==
    [s EXCEPT !._waiting = [token |-> token, data |-> SliceFrom(data, 1)]]

\* _wait(token, data)
_wait(s, token, data) == [s EXCEPT !._waiting = [token |-> token, data |-> data]]

\* _unwait that forgets the pending data.
_unwaitDataLost(s) == <<>>

\* _unwait(): the pending data ('' when not waiting).
_unwaitData(s) == s._waiting.data

\* The outcome of one pass of the scanning loop: the sink afterwards and the
\* cursor to continue from, or Stop after a break or a throw.
Stop == 0 - 1

Continue(s, chunkPos) == [s |-> s, next |-> chunkPos]

Break(s) == [s |-> s, next |-> Stop]

---------------------------------------------------------------------------
(* _parseChunk: the branches of the scanning loop.  In each branch chunkPos
   is the cursor as the source has it when the branch is entered. *)

\* _handleTagOpening that pushes self-closing tags too.
_handleTagOpeningPushesAll(s, node, input, from, to) ==
    Emit([s EXCEPT !._tagStack = Append(@, node.name)],
         [type |-> "tagopen", name |-> node.name, attrs |-> node.attrs,
          isSelfClosing |-> node.isSelfClosing], input, from, to)

\* Tag opening that reports a self-closing tag as an opening followed by a
\* closing of its own.
_handleTagOpeningClosesEmpty(s, node, input, from, to) ==
    LET pushed == IF ~node.isSelfClosing
                  THEN [s EXCEPT !._tagStack = Append(@, node.name)]
                  ELSE s
        opened == Emit(pushed, [type |-> "tagopen", name |-> node.name,
                                attrs |-> node.attrs,
                                isSelfClosing |-> node.isSelfClosing],
                       input, from, to)
    IN  IF node.isSelfClosing
        THEN Emit(opened, [type |-> "tagclose", name |-> node.name],
                  input, to, to)
        ELSE opened

\* _handleTagOpening(node)
_handleTagOpening(s, node, input, from, to) ==
    LET pushed == IF ~node.isSelfClosing
                  THEN [s EXCEPT !._tagStack = Append(@, node.name)]
                  ELSE s
    IN  Emit(pushed, [type |-> "tagopen", name |-> node.name,
                      attrs |-> node.attrs,
                      isSelfClosing |-> node.isSelfClosing], input, from, to)

\* CdataSection that waits for more input when ']]>' ends the input.
CdataSectionWaitsAtEnd(s, input, chunkPos) ==
    LET cdataClose == IndexOf(input, <<"]", "]", ">">>, chunkPos)
    IN  IF cdataClose = -1 \/ cdataClose + 3 >= Len(input)
        THEN Break(_wait(s, "cdata", SliceFrom(input, chunkPos - 9)))
        ELSE Continue(Emit(s, [type |-> "cdata",
                               contents |-> Slice(input, chunkPos, cdataClose)],
                           input, chunkPos - 9, cdataClose + 3),
                      cdataClose + 3)

\* '<![' followed by (a part of) 'CDATA['; chunkPos is just past 'CDATA['.
CdataSection(s, input, chunkPos) ==
    LET cdataClose == IndexOf(input, <<"]", "]", ">">>, chunkPos)
    IN  IF cdataClose = -1
        THEN Break(_wait(s, "cdata", SliceFrom(input, chunkPos - 9)))
        ELSE Continue(Emit(s, [type |-> "cdata",
                               contents |-> Slice(input, chunkPos, cdataClose)],
                           input, chunkPos - 9, cdataClose + 3),
                      cdataClose + 3)

\* CommentSection that does not wait for the character after the closing
\* '--' when the input ends right there.
CommentSectionNoLookahead(s, input, chunkPos) ==
    LET commentClose == IndexOf(input, <<"-", "-">>, chunkPos)
    IN  IF commentClose = -1
        THEN Break(_wait(s, "comment", SliceFrom(input, chunkPos - 4)))
        ELSE IF At(input, commentClose + 2) # ">"
        THEN Break(Throw(s, Error("Unexpected -- inside comment: ",
                                  <<"'">> \o SliceFrom(input, chunkPos - 4)
                                          \o <<"'">>)))
        ELSE Continue(Emit(s, [type |-> "comment",
                               contents |-> Slice(input, chunkPos, commentClose)],
                           input, chunkPos - 4, commentClose + 3),
                      commentClose + 3)

\* Comment section that accepts a '--' inside the comment when the input at
\* hand already holds a later '-->'.
CommentSectionAllowsWhenClosed(s, input, chunkPos) ==
    LET commentClose == IndexOf(input, <<"-", "-">>, chunkPos)
        laterClose == IndexOf(input, <<"-", "-", ">">>, chunkPos)
    IN  IF commentClose = -1 \/ At(input, commentClose + 2) = undefined
        THEN Break(_wait(s, "comment", SliceFrom(input, chunkPos - 4)))
        ELSE IF laterClose = -1
        THEN Break(Throw(s, Error("Unexpected -- inside comment: ",
                                  <<"'">> \o SliceFrom(input, chunkPos - 4)
                                          \o <<"'">>)))
        ELSE Continue(Emit(s, [type |-> "comment",
                               contents |-> Slice(input, chunkPos, laterClose)],
                           input, chunkPos - 4, laterClose + 3),
                      laterClose + 3)

\* Comment section that looks for the first '-->' and accepts any '--'
\* before it.
CommentSectionAllowsDoubleDash(s, input, chunkPos) ==
    LET commentClose == IndexOf(input, <<"-", "-", ">">>, chunkPos)
    IN  IF commentClose = -1
        THEN Break(_wait(s, "comment", SliceFrom(input, chunkPos - 4)))
        ELSE Continue(Emit(s, [type |-> "comment",
                               contents |-> Slice(input, chunkPos, commentClose)],
                           input, chunkPos - 4, commentClose + 3),
                      commentClose + 3)

\* Comment section whose error quotes the comment up to the character that
\* follows the offending '--'.
CommentSectionQuotesUpToDash(s, input, chunkPos) ==
    LET commentClose == IndexOf(input, <<"-", "-">>, chunkPos)
    IN  IF commentClose = -1 \/ At(input, commentClose + 2) = undefined
        THEN Break(_wait(s, "comment", SliceFrom(input, chunkPos - 4)))
        ELSE IF At(input, commentClose + 2) # ">"
        THEN Break(Throw(s, Error("Unexpected -- inside comment: ",
                                  <<"'">> \o Slice(input, chunkPos - 4,
                                                   commentClose + 3)
                                         \o <<"'">>)))
        ELSE Continue(Emit(s, [type |-> "comment",
                               contents |-> Slice(input, chunkPos, commentClose)],
                           input, chunkPos - 4, commentClose + 3),
                      commentClose + 3)

\* '<!-' followed by '-' or by the end of the input; chunkPos is just past
\* '<!--'.
CommentSection(s, input, chunkPos) ==
    LET commentClose == IndexOf(input, <<"-", "-">>, chunkPos)
    IN  IF commentClose = -1 \/ At(input, commentClose + 2) = undefined
        THEN Break(_wait(s, "comment", SliceFrom(input, chunkPos - 4)))
        ELSE IF At(input, commentClose + 2) # ">"
        THEN Break(Throw(s, Error("Unexpected -- inside comment: ",
                                  <<"'">> \o SliceFrom(input, chunkPos - 4)
                                          \o <<"'">>)))
        ELSE Continue(Emit(s, [type |-> "comment",
                               contents |-> Slice(input, chunkPos, commentClose)],
                           input, chunkPos - 4, commentClose + 3),
                      commentClose + 3)

\* Markup declaration that keeps waiting on a character it does not
\* recognize instead of failing.
MarkupDeclarationWaitsOnUnknown(s, input, chunkPos) ==
    LET nextNextChar == At(input, chunkPos)
    IN  IF nextNextChar = undefined
        THEN Break(_wait(s, "markupDeclaration", SliceFrom(input, chunkPos - 2)))
        ELSE IF /\ nextNextChar = "["
                /\ IndexOf(<<"C", "D", "A", "T", "A", "[">>,
                           Slice(input, chunkPos + 1, chunkPos + 7), 0) > -1
        THEN CdataSection(s, input, chunkPos + 7)
        ELSE IF /\ nextNextChar = "-"
                /\ At(input, chunkPos + 1) \in {undefined, "-"}
        THEN CommentSection(s, input, chunkPos + 2)
        ELSE Break(_wait(s, "markupDeclaration", SliceFrom(input, chunkPos - 2)))

\* nextChar === '!'; chunkPos points at the character after '<!'.
MarkupDeclaration(s, input, chunkPos) ==
    LET nextNextChar == At(input, chunkPos)
    IN  IF nextNextChar = undefined
        THEN Break(_wait(s, "markupDeclaration", SliceFrom(input, chunkPos - 2)))
        ELSE IF /\ nextNextChar = "["
                /\ IndexOf(<<"C", "D", "A", "T", "A", "[">>,
                           Slice(input, chunkPos + 1, chunkPos + 7), 0) > -1
        THEN CdataSection(s, input, chunkPos + 7)
        ELSE IF /\ nextNextChar = "-"
                /\ At(input, chunkPos + 1) \in {undefined, "-"}
        THEN CommentSection(s, input, chunkPos + 2)
        ELSE Break(Throw(s, Error("Unrecognized sequence: <!", <<nextNextChar>>)))

\* Processing instruction that leaves the cursor on its '<'.
ProcessingInstructionStaysPut(s, input, chunkPos) ==
    LET piClose == IndexOf(input, <<"?", ">">>, chunkPos)
    IN  IF piClose = -1
        THEN Break(_wait(s, "processinginstruction",
                         SliceFrom(input, chunkPos - 2)))
        ELSE Continue(Emit(s, [type |-> "processinginstruction",
                               contents |-> Slice(input, chunkPos, piClose)],
                           input, chunkPos - 2, piClose + 2),
                      chunkPos - 2)

\* nextChar === '?'; chunkPos points at the character after '<?'.
ProcessingInstruction(s, input, chunkPos) ==
    LET piClose == IndexOf(input, <<"?", ">">>, chunkPos)
    IN  IF piClose = -1
        THEN Break(_wait(s, "processinginstruction",
                         SliceFrom(input, chunkPos - 2)))
        ELSE Continue(Emit(s, [type |-> "processinginstruction",
                               contents |-> Slice(input, chunkPos, piClose)],
                           input, chunkPos - 2, piClose + 2),
                      piClose + 2)

\* ClosingTag whose error names the tag that was read, not the popped one.
ClosingTagNamesRead(s, input, chunkPos, tagClose) ==
    LET tagName == Slice(input, chunkPos + 1, tagClose)
        depth == Len(s._tagStack)
        isEmpty == depth = 0
        stackedTagName == IF isEmpty THEN UndefinedText ELSE s._tagStack[depth]
        popped == IF isEmpty THEN s
                  ELSE [s EXCEPT !._tagStack = SubSeq(@, 1, depth - 1)]
    IN  IF isEmpty \/ stackedTagName # tagName
        THEN Break(Throw([popped EXCEPT !._tagStack = <<>>],
                         Error("Unclosed tag: ", tagName)))
        ELSE Continue(Emit(popped, [type |-> "tagclose", name |-> tagName],
                           input, chunkPos - 1, tagClose + 1),
                      tagClose + 1)

\* ClosingTag that takes the name up to the first whitespace.
ClosingTagTrimsName(s, input, chunkPos, tagClose) ==
    LET written == Slice(input, chunkPos + 1, tagClose)
        whitespace == SearchWhitespace(written)
        tagName == IF whitespace = -1 THEN written
                   ELSE Slice(written, 0, whitespace)
        depth == Len(s._tagStack)
        isEmpty == depth = 0
        stackedTagName == IF isEmpty THEN UndefinedText ELSE s._tagStack[depth]
        popped == IF isEmpty THEN s
                  ELSE [s EXCEPT !._tagStack = SubSeq(@, 1, depth - 1)]
    IN  IF isEmpty \/ stackedTagName # tagName
        THEN Break(Throw([popped EXCEPT !._tagStack = <<>>],
                         Error("Unclosed tag: ", stackedTagName)))
        ELSE Continue(Emit(popped, [type |-> "tagclose", name |-> tagName],
                           input, chunkPos - 1, tagClose + 1),
                      tagClose + 1)

\* Closing tag that lets a closing tag pass when no tag is open.
ClosingTagAcceptsStray(s, input, chunkPos, tagClose) ==
    LET tagName == Slice(input, chunkPos + 1, tagClose)
        depth == Len(s._tagStack)
        isEmpty == depth = 0
        stackedTagName == IF isEmpty THEN UndefinedText ELSE s._tagStack[depth]
        popped == IF isEmpty THEN s
                  ELSE [s EXCEPT !._tagStack = SubSeq(@, 1, depth - 1)]
    IN  IF ~isEmpty /\ stackedTagName # tagName
        THEN Break(Throw([popped EXCEPT !._tagStack = <<>>],
                         Error("Unclosed tag: ", stackedTagName)))
        ELSE Continue(Emit(popped, [type |-> "tagclose", name |-> tagName],
                           input, chunkPos - 1, tagClose + 1),
                      tagClose + 1)

\* input[chunkPos] === '/': a closing tag ending at tagClose.  Popping an
\* empty stack yields undefined, which differs from every tag name.
ClosingTag(s, input, chunkPos, tagClose) ==
    LET tagName == Slice(input, chunkPos + 1, tagClose)
        depth == Len(s._tagStack)
        isEmpty == depth = 0
        stackedTagName == IF isEmpty THEN UndefinedText ELSE s._tagStack[depth]
        popped == IF isEmpty THEN s
                  ELSE [s EXCEPT !._tagStack = SubSeq(@, 1, depth - 1)]
    IN  IF isEmpty \/ stackedTagName # tagName
        THEN Break(Throw([popped EXCEPT !._tagStack = <<>>],
                         Error("Unclosed tag: ", stackedTagName)))
        ELSE Continue(Emit(popped, [type |-> "tagclose", name |-> tagName],
                           input, chunkPos - 1, tagClose + 1),
                      tagClose + 1)

\* Opening tag that takes the first whitespace of the rest of the input as
\* the end of the name, even when it lies after the tag.
OpeningTagSplitsBeyondTag(s, input, chunkPos, tagClose) ==
    LET isSelfClosing == At(input, tagClose - 1) = "/"
        realTagClose == IF isSelfClosing THEN tagClose - 1 ELSE tagClose
        whitespace == SearchWhitespace(SliceFrom(input, chunkPos))
    IN  IF whitespace = -1
        THEN Continue(_handleTagOpening(s,
                         [name |-> Slice(input, chunkPos, realTagClose),
                          attrs |-> <<>>,
                          isSelfClosing |-> isSelfClosing],
                         input, chunkPos - 1, tagClose + 1),
                      tagClose + 1)
        ELSE IF whitespace = 0
        THEN Break(Throw(s, Error("Tag names may not start with whitespace", <<>>)))
        ELSE Continue(_handleTagOpening(s,
                         [name |-> Slice(input, chunkPos, chunkPos + whitespace),
                          attrs |-> Slice(input, chunkPos + whitespace, realTagClose),
                          isSelfClosing |-> isSelfClosing],
                         input, chunkPos - 1, tagClose + 1),
                      tagClose + 1)

\* Opening tag that records the tag as open before it checks its name.
OpeningTagPushesBeforeCheck(s, input, chunkPos, tagClose) ==
    LET isSelfClosing == At(input, tagClose - 1) = "/"
        realTagClose == IF isSelfClosing THEN tagClose - 1 ELSE tagClose
        whitespace == SearchWhitespace(SliceFrom(input, chunkPos))
    IN  IF whitespace = -1 \/ whitespace >= tagClose - chunkPos
        THEN Continue(_handleTagOpening(s,
                         [name |-> Slice(input, chunkPos, realTagClose),
                          attrs |-> <<>>,
                          isSelfClosing |-> isSelfClosing],
                         input, chunkPos - 1, tagClose + 1),
                      tagClose + 1)
        ELSE IF whitespace = 0
        THEN Break(Throw([s EXCEPT !._tagStack = Append(@, <<>>)],
                         Error("Tag names may not start with whitespace", <<>>)))
        ELSE Continue(_handleTagOpening(s,
                         [name |-> Slice(input, chunkPos, chunkPos + whitespace),
                          attrs |-> Slice(input, chunkPos + whitespace, realTagClose),
                          isSelfClosing |-> isSelfClosing],
                         input, chunkPos - 1, tagClose + 1),
                      tagClose + 1)

\* An opening tag ending at tagClose.
OpeningTag(s, input, chunkPos, tagClose) ==
    LET isSelfClosing == At(input, tagClose - 1) = "/"
        realTagClose == IF isSelfClosing THEN tagClose - 1 ELSE tagClose
        whitespace == SearchWhitespace(SliceFrom(input, chunkPos))
    IN  IF whitespace = -1 \/ whitespace >= tagClose - chunkPos
        THEN Continue(_handleTagOpening(s,
                         [name |-> Slice(input, chunkPos, realTagClose),
                          attrs |-> <<>>,
                          isSelfClosing |-> isSelfClosing],
                         input, chunkPos - 1, tagClose + 1),
                      tagClose + 1)
        ELSE IF whitespace = 0
        THEN Break(Throw(s, Error("Tag names may not start with whitespace", <<>>)))
        ELSE Continue(_handleTagOpening(s,
                         [name |-> Slice(input, chunkPos, chunkPos + whitespace),
                          attrs |-> Slice(input, chunkPos + whitespace, realTagClose),
                          isSelfClosing |-> isSelfClosing],
                         input, chunkPos - 1, tagClose + 1),
                      tagClose + 1)

\* Regular tag that ends at the first '>', quoted or not.
RegularTagIgnoresQuotes(s, input, chunkPos) ==
    LET tagClose == IndexOf(input, <<">">>, chunkPos)
    IN  IF tagClose = -1
        THEN Break(_wait(s, "tagopen", SliceFrom(input, chunkPos - 1)))
        ELSE IF At(input, chunkPos) = "/"
        THEN ClosingTag(s, input, chunkPos, tagClose)
        ELSE OpeningTag(s, input, chunkPos, tagClose)

\* Regular tags (< ... >); chunkPos points at the character after '<'.
RegularTag(s, input, chunkPos) ==
    LET tagClose == FindIndexOutside(input, ">", "\"", chunkPos)
    IN  IF tagClose = -1
        THEN Break(_wait(s, "tagopen", SliceFrom(input, chunkPos - 1)))
        ELSE IF At(input, chunkPos) = "/"
        THEN ClosingTag(s, input, chunkPos, tagClose)
        ELSE OpeningTag(s, input, chunkPos, tagClose)

\* The markup starting at the '<' at index lt.
Markup(s, input, lt) ==
    LET chunkPos == lt + 1
        nextChar == At(input, chunkPos)
    IN  IF nextChar = "!" THEN MarkupDeclaration(s, input, chunkPos + 1)
        ELSE IF nextChar = "?" THEN ProcessingInstruction(s, input, chunkPos + 1)
        ELSE RegularTag(s, input, chunkPos)

\* Iteration that emits a text run as soon as the input ends, without
\* waiting for the '<' that follows it.
IterationEmitsTextEarly(s, input, chunkPos) ==
    IF At(input, chunkPos) # "<"
    THEN LET nextTag == IndexOf(input, <<"<">>, chunkPos)
         IN  IF nextTag = -1
             THEN Break(Emit(s, [type |-> "text",
                                  contents |-> SliceFrom(input, chunkPos)],
                             input, chunkPos, Len(input)))
             ELSE Markup(Emit(s, [type |-> "text",
                                   contents |-> Slice(input, chunkPos, nextTag)],
                              input, chunkPos, nextTag),
                         input, nextTag)
    ELSE Markup(s, input, chunkPos)

\* One pass of the body of `while (chunkPos < end)`.
Iteration(s, input, chunkPos) ==
    IF At(input, chunkPos) # "<"
    THEN LET nextTag == IndexOf(input, <<"<">>, chunkPos)
         IN  IF nextTag = -1
             THEN Break(_wait(s, "text", SliceFrom(input, chunkPos)))
             ELSE Markup(Emit(s, [type |-> "text",
                                   contents |-> Slice(input, chunkPos, nextTag)],
                              input, chunkPos, nextTag),
                         input, nextTag)
    ELSE Markup(s, input, chunkPos)

\* while (chunkPos < end) { ... }
RECURSIVE ScanLoop(_, _, _)
ScanLoop(s, input, chunkPos) ==
    IF chunkPos >= Len(input) THEN s
    ELSE LET r == Iteration(s, input, chunkPos)
         IN  IF r.next = Stop THEN r.s ELSE ScanLoop(r.s, input, r.next)

\* _parseChunk that emits a pending text before it scans the new chunk
\* instead of scanning the two together.
_parseChunkFlushesText(s, chunk) ==
    IF s._waiting.token = "text" /\ chunk # <<>>
    THEN ScanLoop(Emit([s EXCEPT !._waiting = NotWaiting],
                       [type |-> "text", contents |-> s._waiting.data],
                       s._waiting.data, 0, Len(s._waiting.data)),
                  chunk, 0)
    ELSE ScanLoop([s EXCEPT !._waiting = NotWaiting], _unwaitData(s) \o chunk, 0)

\* _parseChunk that scans the chunk's length of input only, so that an
\* empty chunk leaves the loop at once with the pending data taken out.
_parseChunkEndOfChunk(s, chunk) ==
    IF chunk = <<>>
    THEN [s EXCEPT !._waiting = NotWaiting]
    ELSE ScanLoop([s EXCEPT !._waiting = NotWaiting], _unwaitData(s) \o chunk, 0)

\* _parseChunk(input): the sink after the call; .error is set when it threw.
_parseChunk(s, chunk) ==
    ScanLoop([s EXCEPT !._waiting = NotWaiting], _unwaitData(s) \o chunk, 0)

\* write(chunk)
write(s, chunk) == _parseChunk(s, chunk)

\* HandleUnclosed that lets an unclosed comment pass.
HandleUnclosedLenient(s) ==
    LET token == s._waiting.token
    IN  IF token = "text"
        THEN Emit(s, [type |-> "text", contents |-> s._waiting.data],
                  s._waiting.data, 0, Len(s._waiting.data))
        ELSE IF token = "cdata"
        THEN Throw(s, Error("Unclosed CDATA section", <<>>))
        ELSE IF token = "processinginstruction"
        THEN Throw(s, Error("Unclosed processing instruction", <<>>))
        ELSE IF token \in {"tagopen", "tagclose"}
        THEN Throw(s, Error("Unclosed tag", <<>>))
        ELSE s

\* HandleUnclosed that does not emit the pending text.
HandleUnclosedDropsText(s) ==
    LET token == s._waiting.token
    IN  IF token = "cdata"
        THEN Throw(s, Error("Unclosed CDATA section", <<>>))
        ELSE IF token = "comment"
        THEN Throw(s, Error("Unclosed comment", <<>>))
        ELSE IF token = "processinginstruction"
        THEN Throw(s, Error("Unclosed processing instruction", <<>>))
        ELSE IF token \in {"tagopen", "tagclose"}
        THEN Throw(s, Error("Unclosed tag", <<>>))
        ELSE s

\* HandleUnclosed that reports a pending comment ending with '--' as an
\* unexpected '--'.
HandleUnclosedReportsDash(s) ==
    LET token == s._waiting.token
        data == s._waiting.data
    IN  IF token = "text"
        THEN Emit(s, [type |-> "text", contents |-> data], data, 0, Len(data))
        ELSE IF token = "cdata"
        THEN Throw(s, Error("Unclosed CDATA section", <<>>))
        ELSE IF token = "comment" /\ IndexOf(data, <<"-", "-">>, 4) # -1
        THEN Throw(s, Error("Unexpected -- inside comment: ",
                            <<"'">> \o data \o <<"'">>))
        ELSE IF token = "comment"
        THEN Throw(s, Error("Unclosed comment", <<>>))
        ELSE IF token = "processinginstruction"
        THEN Throw(s, Error("Unclosed processing instruction", <<>>))
        ELSE IF token \in {"tagopen", "tagclose"}
        THEN Throw(s, Error("Unclosed tag", <<>>))
        ELSE s

\* The switch on _waiting.token in close().
HandleUnclosed(s) ==
    LET token == s._waiting.token
    IN  IF token = "text"
        THEN Emit(s, [type |-> "text", contents |-> s._waiting.data],
                  s._waiting.data, 0, Len(s._waiting.data))
        ELSE IF token = "cdata"
        THEN Throw(s, Error("Unclosed CDATA section", <<>>))
        ELSE IF token = "comment"
        THEN Throw(s, Error("Unclosed comment", <<>>))
        ELSE IF token = "processinginstruction"
        THEN Throw(s, Error("Unclosed processing instruction", <<>>))
        ELSE IF token \in {"tagopen", "tagclose"}
        THEN Throw(s, Error("Unclosed tag", <<>>))
        ELSE s

\* CheckTagStack that reports the innermost open tag only.
CheckTagStackInnermost(s) ==
    IF Len(s._tagStack) # 0
    THEN Throw(s, Error("Unclosed tags: ", s._tagStack[Len(s._tagStack)]))
    ELSE s

\* The final check of the open-tag stack in close().
CheckTagStack(s) ==
    IF Len(s._tagStack) # 0
    THEN Throw(s, Error("Unclosed tags: ", Join(s._tagStack)))
    ELSE s

\* close() that looks at the open-tag stack before the pending token.
closeChecksStackFirst(s) ==
    LET flushed == _parseChunk(s, <<>>)
        checked == CheckTagStack(flushed)
    IN  IF flushed.error # NoError THEN flushed
        ELSE IF checked.error # NoError THEN checked
        ELSE IF flushed._waiting # NotWaiting THEN HandleUnclosed(flushed)
        ELSE flushed

\* close()
close(s) ==
    LET flushed == _parseChunk(s, <<>>)
        handled == IF flushed._waiting # NotWaiting
                   THEN HandleUnclosed(flushed) ELSE flushed
    IN  IF flushed.error # NoError THEN flushed
        ELSE IF handled.error # NoError THEN handled
        ELSE CheckTagStack(handled)

---------------------------------------------------------------------------
(* The documents the producer delivers *)

\* Pieces of XML text; a document is a concatenation of some of them, and
\* the producer may stop after any prefix of it.
Frags ==
    { <<"<", "a", ">">>,
      <<"<", "/", "a", ">">>,
      <<"<", "/", "a", " ", ">">>,
      <<"<", "a", ">", "<", "b", ">">>,
      <<"<", "/", "b", ">">>,
      <<"<", "/", "b", ">", "<", "/", "a", ">">>,
      <<"<", "b", " ", "c", "=", "\"", ">", "\"", "/", ">">>,
      <<"<", "b", " ", "c", "=", "'", ">", "'", "/", ">">>,
      <<"x">>,
      <<" ">>,
      <<"-">>,
      <<"<", "!">>,
      <<"<", "!", "-", "-">>,
      <<"-", "-", ">">>,
      <<" ", "-", "-", " ", "-", "-", ">">>,
      <<"<", " ", "b", ">">>,
      <<"<", "a", " ", "/", ">">>,
      <<"<", "!", "[", "C", "D", "A", "T", "A", "[">>,
      <<"<", "!", "[", "A">>,
      <<"]", "]", ">">>,
      <<"<", "?">>,
      <<"?", ">">> }

RECURSIVE Concat(_)
Concat(pieces) ==
    IF pieces = <<>> THEN <<>> ELSE pieces[1] \o Concat(Tail(pieces))

Docs == UNION {{Concat(pieces) : pieces \in [1..k -> Frags]} : k \in 0..MaxFrags}

\* The text written so far.
Written == SubSeq(doc, 1, pos)

---------------------------------------------------------------------------
(* class Saxophone extends WritableStream: the sink behind the stream *)

\* The sink as the variables hold it.
Sink ==
    [_tagStack |-> _tagStack, _waiting |-> _waiting, events |-> events,
     raw |-> raw, spans |-> spans, error |-> error]

\* StreamStateAfter of a stream that a throwing sink does not error.
StreamStaysWritable(r, op) ==
    IF op = "close" THEN "closed" ELSE "writable"

\* The stream's state after a call of the sink returned sink state r:
\* a throwing sink errors the stream, a returning close() closes it.
StreamStateAfter(r, op) ==
    IF r.error # NoError THEN "errored"
    ELSE IF op = "close" THEN "closed"
    ELSE "writable"

\* The variables after a call of the sink that returned sink state r.
SinkReturned(r, op) ==
    /\ _tagStack' = r._tagStack
    /\ _waiting' = r._waiting
    /\ events' = r.events
    /\ raw' = r.raw
    /\ spans' = r.spans
    /\ error' = r.error
    /\ state' = StreamStateAfter(r, op)
    /\ outcome' = IF r.error # NoError THEN "failed" ELSE "fulfilled"

Init ==
    /\ doc \in Docs
    /\ pos = 0
    /\ _tagStack = NewSink._tagStack
    /\ _waiting = NewSink._waiting
    /\ events = NewSink.events
    /\ raw = NewSink.raw
    /\ spans = NewSink.spans
    /\ error = NewSink.error
    /\ state = "writable"
    /\ locked = FALSE
    /\ closeRequested = FALSE
    /\ split = FALSE
    /\ outcome = "none"
    /\ given = <<>>
    /\ meaning = NotCalled
    /\ result = NotCalled
    /\ scanned = <<>>
    /\ cursor = 0

\* The producer writes the next n characters of the document as one chunk.
Write(n) ==
    /\ state = "writable"
    /\ ~locked
    /\ pos' = pos + n
    /\ split' = (split \/ (n > 0 /\ pos > 0))
    /\ SinkReturned(write(Sink, SubSeq(doc, pos + 1, pos + n)), "write")
    /\ UNCHANGED <<doc, locked, closeRequested, given, meaning, result,
                   scanned, cursor>>

\* The producer ends the stream.
Close ==
    /\ state = "writable"
    /\ ~locked
    /\ closeRequested' = TRUE
    /\ SinkReturned(close(Sink), "close")
    /\ UNCHANGED <<doc, pos, locked, split, given, meaning, result,
                   scanned, cursor>>

\* Saxophone.parse(input) on a fresh instance, with the whole document.
Parse ==
    /\ state = "writable"
    /\ ~locked
    /\ pos = 0
    /\ locked' = TRUE
    /\ pos' = Len(doc)
    /\ SinkReturned(write(Sink, doc), "write")
    /\ UNCHANGED <<doc, closeRequested, split, given, meaning, result,
                   scanned, cursor>>

\* An operation on a stream that is closed, errored or locked by parse():
\* the stream rejects it without calling the sink.
LateOperation ==
    /\ state # "writable" \/ locked
    /\ outcome' = "rejected"
    /\ UNCHANGED <<doc, pos, _tagStack, _waiting, events, raw, spans, error,
                   state, locked, closeRequested, split, given, meaning, result,
                   scanned, cursor>>

Next ==
    \/ \E n \in 0..(Len(doc) - pos) : Write(n)
    \/ Close
    \/ Parse
    \/ LateOperation

Spec == Init /\ [][Next]_vars

---------------------------------------------------------------------------
(* _parseChunk, one pass of its scanning loop at a time *)

\* The variables that a pass of the scanning loop leaves alone.
passFrame ==
    <<doc, pos, state, locked, closeRequested, split, given, meaning, result>>

ScanInit == Init

\* write(chunk) is called with the next n characters: _parseChunk takes the
\* pending data back and starts at chunkPos = 0.
BeginWrite(n) ==
    /\ state = "writable"
    /\ outcome # "pending"
    /\ scanned' = _unwaitData(Sink) \o SubSeq(doc, pos + 1, pos + n)
    /\ cursor' = 0
    /\ _waiting' = NotWaiting
    /\ pos' = pos + n
    /\ split' = (split \/ (n > 0 /\ pos > 0))
    /\ outcome' = "pending"
    /\ UNCHANGED <<doc, _tagStack, events, raw, spans, error, state, locked,
                   closeRequested, given, meaning, result>>

\* One pass of the body of `while (chunkPos < end)`.
ScanStep ==
    /\ outcome = "pending"
    /\ cursor # Stop
    /\ cursor < Len(scanned)
    /\ \E r \in {Iteration(Sink, scanned, cursor)} :
           /\ _tagStack' = r.s._tagStack
           /\ _waiting' = r.s._waiting
           /\ events' = r.s.events
           /\ raw' = r.s.raw
           /\ spans' = r.s.spans
           /\ error' = r.s.error
           /\ cursor' = r.next
    /\ UNCHANGED <<passFrame, scanned, outcome>>

\* The loop has ended (chunkPos reached the end, a break, or a throw):
\* write returns or fails.
EndWrite ==
    /\ outcome = "pending"
    /\ cursor = Stop \/ cursor >= Len(scanned)
    /\ outcome' = IF error # NoError THEN "failed" ELSE "fulfilled"
    /\ state' = StreamStateAfter(Sink, "write")
    /\ UNCHANGED <<doc, pos, _tagStack, _waiting, events, raw, spans, error,
                   locked, closeRequested, split, given, meaning, result,
                   scanned, cursor>>

ScanNext ==
    \/ \E n \in 0..(Len(doc) - pos) : BeginWrite(n)
    \/ ScanStep
    \/ EndWrite

ScanSpec == ScanInit /\ [][ScanNext]_vars

\* The loop is a sequential program: a pass that can be made is made.
ScanFairSpec == ScanSpec /\ WF_vars(ScanStep) /\ WF_vars(EndWrite)

---------------------------------------------------------------------------
(* Calls of the static functions: test/static/entities.js, attrs.js *)

\* No stream is in use while a static function is called.
NoStream ==
    /\ doc = <<>>
    /\ pos = 0
    /\ _tagStack = NewSink._tagStack
    /\ _waiting = NewSink._waiting
    /\ events = NewSink.events
    /\ raw = NewSink.raw
    /\ spans = NewSink.spans
    /\ error = NewSink.error
    /\ state = "writable"
    /\ locked = FALSE
    /\ closeRequested = FALSE
    /\ split = FALSE
    /\ outcome = "none"
    /\ scanned = <<>>
    /\ cursor = 0

streamVars ==
    <<doc, pos, _tagStack, _waiting, events, raw, spans, error, state, locked,
      closeRequested, split, outcome, scanned, cursor>>

\* Pieces of text with what each stands for once decoded: the five named
\* references, numeric references, and sequences that are no reference.
EntityPieces ==
    { [src |-> <<"&", "q", "u", "o", "t", ";">>,
       out |-> <<"\"">>],
      [src |-> <<"&", "a", "m", "p", ";">>,
       out |-> <<"&">>],
      [src |-> <<"&", "a", "p", "o", "s", ";">>,
       out |-> <<"'">>],
      [src |-> <<"&", "l", "t", ";">>,
       out |-> <<"<">>],
      [src |-> <<"&", "g", "t", ";">>,
       out |-> <<">">>],
      [src |-> <<"&", "#", "3", "8", ";">>,
       out |-> <<"&">>],
      [src |-> <<"&", "#", "x", "3", "C", ";">>,
       out |-> <<"<">>],
      [src |-> <<"&", "#", "X", "3", "e", ";">>,
       out |-> <<">">>],
      [src |-> <<"&", "u", "n", "k", "n", "o", "w", "n", ";">>,
       out |-> <<"&", "u", "n", "k", "n", "o", "w", "n", ";">>],
      [src |-> <<"&", "a", "m", "p">>,
       out |-> <<"&", "a", "m", "p">>],
      [src |-> <<"&", "#", "n", "o", "t", "a", "n", "u", "m", "b", "e", "r",
                 ";">>,
       out |-> <<"&", "#", "n", "o", "t", "a", "n", "u", "m", "b", "e", "r",
                 ";">>],
      [src |-> <<"&", "#", "x", "n", "o", "t", "a", "n", "u", "m", "b", "e",
                 "r", ";">>,
       out |-> <<"&", "#", "x", "n", "o", "t", "a", "n", "u", "m", "b", "e",
                 "r", ";">>],
      [src |-> <<"&", "#", ";">>,
       out |-> <<"&", "#", ";">>],
      [src |-> <<"&", "#", "x", ";">>,
       out |-> <<"&", "#", "x", ";">>],
      [src |-> <<"&", "#", "1", "2", "a", ";">>,
       out |-> <<"&", "#", "1", "2", "a", ";">>],
      [src |-> <<"&">>,
       out |-> <<"&">>],
      [src |-> <<"a">>,
       out |-> <<"a">>],
      [src |-> <<"&", "#", "1", "6", "7", ";">>,
       out |-> <<"U+167">>],
      [src |-> <<"&", "#", "x", "A", "7", ";">>,
       out |-> <<"U+167">>] }

\* The texts are made of at most this many pieces.
MaxEntityPieces == 2

\* The concatenation of one field of a sequence of pieces.
FieldOf(pieces, field) == Concat([i \in 1..Len(pieces) |-> pieces[i][field]])

\* A text to decode is chosen, as a sequence of pieces.
EntitiesInit ==
    /\ NoStream
    /\ \E k \in 0..MaxEntityPieces : \E pieces \in [1..k -> EntityPieces] :
          /\ given = FieldOf(pieces, "src")
          /\ meaning = [done |-> TRUE, error |-> "",
                         value |-> FieldOf(pieces, "out")]
    /\ result = NotCalled

\* Saxophone.parseEntities(given)
CallParseEntities ==
    /\ ~result.done
    /\ result' = parseEntities(given)
    /\ UNCHANGED <<streamVars, given, meaning>>

EntitiesNext == CallParseEntities

EntitiesSpec == EntitiesInit /\ [][EntitiesNext]_vars

\* Well-formed attributes with the name and the value each stands for.
AttrPairs ==
    { [src |-> <<" ", "a", "=", "\"", "x", "\"">>,
       name |-> <<"a">>, value |-> <<"x">>],
      [src |-> <<" ", "a", "=", "'", "y", " ", "z", "'">>,
       name |-> <<"a">>, value |-> <<"y", " ", "z">>],
      [src |-> <<" ", "b", "=", "\"", ">", "\"">>,
       name |-> <<"b">>, value |-> <<">">>],
      [src |-> <<" ", "b", "=", "'", "&", "a", "m", "p", ";", "'">>,
       name |-> <<"b">>, value |-> <<"&", "a", "m", "p", ";">>],
      [src |-> <<"\t", "c", "=", "\"", "'", "\"">>,
       name |-> <<"c">>, value |-> <<"'">>] }

\* What may follow the well-formed attributes, with the error it causes
\* ("" for none).
AttrTails ==
    { [src |-> <<>>,
       error |-> ""],
      [src |-> <<" ">>,
       error |-> ""],
      [src |-> <<" ", "a">>,
       error |-> "Expected a value for the attribute"],
      [src |-> <<" ", "a", " ", "b", "=", "\"", "x", "\"">>,
       error |-> "Attribute names may not contain whitespace"],
      [src |-> <<" ", "a", "=", "x", " ", "b", "=", "y">>,
       error |-> "Attribute values should be quoted"],
      [src |-> <<" ", "a", "=", "\"", "x", "'">>,
       error |-> "Unclosed attribute value"] }

\* The attribute strings hold at most this many well-formed attributes.
MaxAttrPairs == 2

\* The mapping given by a sequence of well-formed attributes.
RECURSIVE MappingOf(_)
MappingOf(pairs) ==
    IF pairs = <<>> THEN NoAttrs
    ELSE LET last == pairs[Len(pairs)]
             before == MappingOf(SubSeq(pairs, 1, Len(pairs) - 1))
         IN  [n \in DOMAIN before \cup {last.name} |->
                 IF n = last.name THEN last.value ELSE before[n]]

\* An attribute string is chosen: well-formed attributes and a tail.
AttrsInit ==
    /\ NoStream
    /\ \E k \in 0..MaxAttrPairs : \E pairs \in [1..k -> AttrPairs] :
       \E tail \in AttrTails :
          /\ given = FieldOf(pairs, "src") \o tail.src
          /\ meaning = IF tail.error = ""
                        THEN [done |-> TRUE, error |-> "", value |-> MappingOf(pairs)]
                        ELSE AttrsError(tail.error)
    /\ result = NotCalled

\* Saxophone.parseAttrs(given)
CallParseAttrs ==
    /\ ~result.done
    /\ result' = parseAttrs(given)
    /\ UNCHANGED <<streamVars, given, meaning>>

AttrsNext == CallParseAttrs

AttrsSpec == AttrsInit /\ [][AttrsNext]_vars

---------------------------------------------------------------------------
(* Notions the properties are stated with *)

\* The sink after write(text) and close() on a fresh parser, the close
\* being skipped when the write throws.
WholeRun(text) ==
    LET w == write(NewSink, text)
    IN  IF w.error # NoError THEN w ELSE close(w)

IsPrefix(a, b) == Len(a) <= Len(b) /\ SubSeq(b, 1, Len(a)) = a

\* The written text that no emitted event covers.
Rest == SubSeq(Written, Len(raw) + 1, Len(Written))

\* The names of the non-self-closing tagopen events of evs that no later
\* tagclose event has matched, outermost first; a tagclose matches the
\* innermost open one.
RECURSIVE OpenNames(_)
OpenNames(evs) ==
    IF evs = <<>> THEN <<>>
    ELSE LET before == OpenNames(SubSeq(evs, 1, Len(evs) - 1))
             ev == evs[Len(evs)]
         IN  IF ev.type = "tagopen" /\ ~ev.isSelfClosing
             THEN Append(before, ev.name)
             ELSE IF ev.type = "tagclose" /\ before # <<>>
             THEN SubSeq(before, 1, Len(before) - 1)
             ELSE before

\* Every tagclose event of evs carries the name of the innermost tag open
\* when it was emitted.
ClosesMatch(evs) ==
    \A i \in 1..Len(evs) :
        evs[i].type = "tagclose" =>
            LET open == OpenNames(SubSeq(evs, 1, i - 1))
            IN  open # <<>> /\ open[Len(open)] = evs[i].name

\* The kinds of pending token that stand for markup begun with '<'.
MarkupKinds ==
    {"markupDeclaration", "cdata", "comment", "processinginstruction",
     "tagopen", "tagclose"}

---------------------------------------------------------------------------
(* C1 *)

\* C1: chunk-boundary invariance.  When the document parses without error
\* as a single write followed by close, no write of a chunk of it fails;
\* and whenever the text written so far parses without error as a whole,
\* writing it in any chunks and closing succeeds too and has emitted exactly
\* the same events.
ChunkBoundaryInvariance ==
    ~locked =>
        /\ (~closeRequested /\ WholeRun(doc).error = NoError)
              => error = NoError
        /\ (state # "writable" /\ WholeRun(Written).error = NoError)
              => /\ state = "closed"
                 /\ events = WholeRun(Written).events

\* A CDATA section, alone in the stream, delivered in several chunks and
\* closed: every chunk boundary lies inside the token.
ChunkedCdataClosed ==
    /\ state = "closed"
    /\ split
    /\ Len(events) = 1
    /\ events[1].type = "cdata"
    /\ raw = Written

---------------------------------------------------------------------------
(* C2 *)

\* C2: parse(input) is write(input) followed by close(): once it has
\* completed, the events and the failure are those of writing the whole text
\* and closing.
ParseIsWriteThenClose ==
    locked => /\ events = WholeRun(doc).events
              /\ error = WholeRun(doc).error

---------------------------------------------------------------------------
(* C3 *)

\* C3 as stated: in every reachable state the open-tag stack holds the names
\* of the emitted non-self-closing tagopen events not yet matched by a
\* tagclose, and every tagclose names the innermost open tag.
OpenTagStackInvariant ==
    /\ _tagStack = OpenNames(events)
    /\ ClosesMatch(events)

\* C3, amended: the same, except in the states that follow a write failed
\* with 'Unclosed tag: <name>', where the stack has been emptied.
OpenTagStackUnlessMismatch ==
    /\ error.message # "Unclosed tag: " => _tagStack = OpenNames(events)
    /\ ClosesMatch(events)

\* A nested tag has been closed and its parent is still open.
InnerTagClosed ==
    /\ Len(events) = 3
    /\ events[3].type = "tagclose"
    /\ _tagStack = <<events[1].name>>

---------------------------------------------------------------------------
(* C4 *)

\* C4: a complete closing tag whose name differs from the innermost open
\* tag (or that meets no open tag) is never emitted as a tagclose: the write
\* fails with 'Unclosed tag: ' + the name that was expected to close, and
\* the open-tag stack is empty afterwards.
MismatchedClosingTagFails ==
    LET open == OpenNames(events)
        expected == IF open = <<>> THEN UndefinedText ELSE open[Len(open)]
        tagClose == FindIndexOutside(Rest, ">", "\"", 0)
        isClosingTag == /\ At(Rest, 0) = "<"
                        /\ At(Rest, 1) = "/"
                        /\ tagClose # -1
    IN  /\ ClosesMatch(events)
        /\ (isClosingTag /\ (open = <<>> \/ Slice(Rest, 2, tagClose) # expected))
              => /\ state = "errored"
                 /\ ~closeRequested
                 /\ error = Error("Unclosed tag: ", expected)
                 /\ _tagStack = <<>>

\* '<a><b></a>': two tags opened, then the failure naming b.
MismatchNamesInnerTag ==
    /\ error = Error("Unclosed tag: ", <<"b">>)
    /\ Len(events) = 2
    /\ Rest = <<"<", "/", "a", ">">>

---------------------------------------------------------------------------
(* C5 *)

\* C5: when close is reached with no partial markup pending and tags still
\* open, it fails with 'Unclosed tags: ' + the open names, outermost first,
\* joined by commas.
UnclosedTagsAtClose ==
    (/\ closeRequested
     /\ _waiting.token \notin MarkupKinds
     /\ _tagStack # <<>>)
        => /\ state = "errored"
           /\ error.message = "Unclosed tags: "
           /\ error.arg = Join(OpenNames(events))

\* The stream ended inside <a><b>.
TwoUnclosedTagsReported ==
    /\ closeRequested
    /\ error = Error("Unclosed tags: ", <<"a", ",", "b">>)

---------------------------------------------------------------------------
(* C6 *)

\* C6: close with a partial CDATA section, comment, processing instruction
\* or tag pending fails with the message of that kind, and no event covers
\* the partial construct.
UnclosedConstructAtClose ==
    LET token == _waiting.token
    IN  closeRequested =>
          /\ token = "cdata" => error = Error("Unclosed CDATA section", <<>>)
          /\ token = "comment" => error = Error("Unclosed comment", <<>>)
          /\ token = "processinginstruction"
                => error = Error("Unclosed processing instruction", <<>>)
          /\ token \in {"tagopen", "tagclose"}
                => error = Error("Unclosed tag", <<>>)
          /\ token \in MarkupKinds \ {"markupDeclaration"}
                => /\ state = "errored"
                   /\ raw \o _waiting.data = Written

\* The stream ended inside a comment that follows an emitted event.
UnclosedCommentReported ==
    /\ closeRequested
    /\ _waiting.token = "comment"
    /\ events # <<>>
    /\ error = Error("Unclosed comment", <<>>)

---------------------------------------------------------------------------
(* C7 *)

\* C7: a text run pending at the end of the stream is not covered by any
\* event while the stream is open, and close emits it as the last event,
\* whole and once (the events then cover the written text exactly).
PendingTextEmittedOnceAtClose ==
    /\ (~closeRequested /\ error = NoError /\ _waiting.token = "text")
          => raw \o _waiting.data = Written
    /\ (closeRequested /\ _waiting.token = "text")
          => /\ events # <<>>
             /\ events[Len(events)] =
                    [type |-> "text", contents |-> _waiting.data]
             /\ raw = Written
             /\ SliceFrom(Written, Len(Written) - Len(_waiting.data))
                    = _waiting.data

\* Text after the last tag, delivered in pieces, emitted by a clean close.
TrailingTextEmitted ==
    /\ state = "closed"
    /\ split
    /\ Len(events) = 2
    /\ events[1].type = "tagopen"
    /\ events[2].type = "text"

---------------------------------------------------------------------------
(* C8 *)

\* C8: close fails whenever a markup construct begun with '<' is pending,
\* whatever its kind; only a pending text run is accepted.
UnclosedMarkupFailsAtClose ==
    (closeRequested /\ _waiting.token \in MarkupKinds) => state = "errored"

---------------------------------------------------------------------------
(* C9 *)

\* C9: after a write or close has failed, and after close has completed, no
\* operation emits an event; the failing write has emitted the tokens that
\* precede the failing construct, which begins the uncovered text.
NoEventAfterFailureOrClose ==
    [][/\ (error # NoError \/ closeRequested) => events' = events
       /\ (error = NoError /\ error' # NoError /\ ~closeRequested')
             => /\ IsPrefix(events, events')
                /\ IsPrefix(raw', Written')
                /\ At(Rest', 0) = "<"]_vars

\* An operation was rejected after a failure that followed emitted events.
OperationRejectedAfterFailure ==
    /\ outcome = "rejected"
    /\ error # NoError
    /\ ~closeRequested
    /\ events # <<>>

---------------------------------------------------------------------------
(* C10 *)

\* C10: after any sequence of successful writes, the source text of the
\* emitted events followed by the waiting buffer is the text written so far,
\* and the events are those of that source text, in order.
NoInputLost ==
    (state = "writable" /\ error = NoError)
        => /\ raw \o _waiting.data = Written
           /\ events = WholeRun(raw).events

\* A comment is pending after an emitted event, the text having been
\* delivered in several chunks.
CommentPendingAfterEvent ==
    /\ state = "writable"
    /\ split
    /\ _waiting.token = "comment"
    /\ events # <<>>

---------------------------------------------------------------------------
(* C11 *)

\* The written text that follows the source text of the first i events.
AfterSpan(i) ==
    SliceFrom(Written, Len(Concat(SubSeq(spans, 1, i))))

\* C11: no event is emitted before the end of its token has been written.
\* The source text of every markup event lies in the written text and ends
\* with '>'; a text event is followed in the written text by '<', unless it
\* is the last event and close emitted it.  A construct whose end has not
\* been written is not covered by any event.
NoEventBeforeTokenEnd ==
    /\ Len(spans) = Len(events)
    /\ Concat(spans) = raw
    /\ IsPrefix(raw, Written)
    /\ \A i \in 1..Len(events) :
          IF events[i].type = "text"
          THEN \/ At(AfterSpan(i), 0) = "<"
               \/ closeRequested /\ i = Len(events) /\ AfterSpan(i) = <<>>
          ELSE /\ At(spans[i], 0) = "<"
               /\ At(spans[i], Len(spans[i]) - 1) = ">"
    /\ (state = "writable" /\ _waiting.token \in MarkupKinds)
          => /\ Rest = _waiting.data
             /\ At(Rest, 0) = "<"

\* A CDATA section begun in an earlier chunk is still open after a later
\* one, and nothing has been emitted.
OpenCdataSpansChunks ==
    /\ state = "writable"
    /\ split
    /\ _waiting.token = "cdata"
    /\ Len(_waiting.data) > 9
    /\ events = <<>>

---------------------------------------------------------------------------
(* C12 *)

\* C12: as soon as the written text not covered by events begins with '<!'
\* and a character other than '[' and '-', the stream has failed with
\* 'Unrecognized sequence: <!' followed by that character; and a failure
\* with that message leaves '<!' and the reported character uncovered by
\* any event.
UnrecognizedMarkupDeclarationFails ==
    /\ (/\ Len(Rest) >= 3
        /\ At(Rest, 0) = "<"
        /\ At(Rest, 1) = "!"
        /\ At(Rest, 2) \notin {"[", "-"})
          => /\ error = Error("Unrecognized sequence: <!", <<At(Rest, 2)>>)
             /\ state = "errored"
             /\ outcome \in {"failed", "rejected"}
    /\ error.message = "Unrecognized sequence: <!"
          => Slice(Rest, 0, 3) = <<"<", "!">> \o error.arg

\* '<!x' delivered in more than one chunk has failed, with no event.
SplitDeclarationRejected ==
    /\ split
    /\ Written = <<"<", "!", "x">>
    /\ error = Error("Unrecognized sequence: <!", <<"x">>)
    /\ events = <<>>

---------------------------------------------------------------------------
(* C13 *)

\* The index in text of the first '--' after an opening '<!--' at index 0.
FirstDoubleDash(text) == IndexOf(text, <<"-", "-">>, 4)

\* C13: when the written text not covered by events begins with '<!--' and
\* the first '--' after it is followed by a character other than '>', the
\* stream has failed with 'Unexpected -- inside comment' (whatever follows in
\* the text); and the only '--' inside the source text of a comment event is
\* the one of its closing '-->'.
DoubleDashInsideCommentFails ==
    /\ (/\ Slice(Rest, 0, 4) = <<"<", "!", "-", "-">>
        /\ FirstDoubleDash(Rest) # -1
        /\ At(Rest, FirstDoubleDash(Rest) + 2) \notin {undefined, ">"})
          => /\ error.message = "Unexpected -- inside comment: "
             /\ state = "errored"
    /\ \A i \in 1..Len(events) :
          events[i].type = "comment"
             => /\ FirstDoubleDash(spans[i]) = Len(spans[i]) - 3
                /\ events[i].contents = Slice(spans[i], 4, Len(spans[i]) - 3)

\* '<!-- -- -->' has been written whole, in several chunks: the stream has
\* failed although the text ends with a valid '-->'.
CommentWithLaterCloseRejected ==
    /\ split
    /\ Written = <<"<", "!", "-", "-", " ", "-", "-", " ", "-", "-", ">">>
    /\ error.message = "Unexpected -- inside comment: "
    /\ events = <<>>

---------------------------------------------------------------------------
(* C14 *)

\* The 0-based indices k >= 1 of text that hold a '>' preceded, after the
\* first character, by an even number of double quotes.
UnquotedCloses(text) ==
    {k \in 1..(Len(text) - 1) :
        /\ At(text, k) = ">"
        /\ Cardinality({j \in 1..(k - 1) : At(text, j) = "\""}) % 2 = 0}

\* The event of the tag '<b c=">"/>'.
QuotedCloseTag ==
    [type |-> "tagopen", name |-> <<"b">>,
     attrs |-> <<" ", "c", "=", "\"", ">", "\"">>, isSelfClosing |-> TRUE]

\* C14: the source text of every tag event ends at its first '>' outside
\* double quotes, and a tag that is still pending has no such '>'; so
\* '<b c=">"/>' is one self-closing tagopen with attrs ' c=">"', whatever
\* the chunking.
TagEndsAtFirstUnquotedClose ==
    /\ \A i \in 1..Len(events) :
          events[i].type \in {"tagopen", "tagclose"}
             => /\ UnquotedCloses(spans[i]) # {}
                /\ \A k \in UnquotedCloses(spans[i]) : k >= Len(spans[i]) - 1
    /\ (state = "writable" /\ _waiting.token = "tagopen")
          => UnquotedCloses(_waiting.data) = {}
    /\ \A i \in 1..Len(events) :
          spans[i] = <<"<", "b", " ", "c", "=", "\"", ">", "\"", "/", ">">>
             => events[i] = QuotedCloseTag

\* '<b c=">"/>' arrived in several chunks and is the only event.
QuotedCloseTagParsed ==
    /\ split
    /\ state = "writable"
    /\ pos = 10
    /\ events = <<QuotedCloseTag>>

---------------------------------------------------------------------------
(* C15 *)

\* The body of the opening tag with source text tag: the text between '<'
\* and the closing '>', or '/>' when the tag is self-closing.
TagBody(tag) ==
    IF At(tag, Len(tag) - 2) = "/"
    THEN Slice(tag, 1, Len(tag) - 2)
    ELSE Slice(tag, 1, Len(tag) - 1)

\* C15: for every tagopen event with body B, isSelfClosing holds exactly
\* when '/' precedes the closing '>'; without whitespace in B the name is B
\* and attrs is empty, otherwise the name is B up to its first whitespace
\* and attrs is the rest of B from that whitespace on; name followed by
\* attrs is B.
TagOpenPayload ==
    \A i \in 1..Len(events) :
       events[i].type = "tagopen"
          => LET B == TagBody(spans[i])
                 ws == SearchWhitespace(B)
             IN  /\ events[i].isSelfClosing = (At(spans[i], Len(spans[i]) - 2) = "/")
                 /\ events[i].name \o events[i].attrs = B
                 /\ IF ws = -1
                    THEN events[i].name = B /\ events[i].attrs = <<>>
                    ELSE /\ events[i].name = Slice(B, 0, ws)
                         /\ events[i].attrs = SliceFrom(B, ws)

\* '<a />' and '<a>' have both been parsed: name 'a' with attrs ' ', and
\* name 'a' with empty attrs.
TagWithAndWithoutAttrs ==
    /\ Written = <<"<", "a", " ", "/", ">", "<", "a", ">">>
    /\ split
    /\ Len(events) = 2
    /\ events[1] = [type |-> "tagopen", name |-> <<"a">>, attrs |-> <<" ">>,
                    isSelfClosing |-> TRUE]
    /\ events[2] = [type |-> "tagopen", name |-> <<"a">>, attrs |-> <<>>,
                    isSelfClosing |-> FALSE]

---------------------------------------------------------------------------
(* C16 *)

\* ev is neither a tagclose nor the opening of a tag that stays open.
LeavesTagsAlone(ev) ==
    ev.type # "tagclose" /\ (ev.type = "tagopen" => ev.isSelfClosing)

\* C16: a tag written as '<.../>' is one tagopen event with isSelfClosing
\* true; every tagclose event comes from a closing tag '</name>' of the
\* text; and once a text made only of self-closing tags and text has been
\* written and closed, the stack is empty and the stream has closed without
\* an error.
SelfClosingTagState ==
    /\ \A i \in 1..Len(events) :
          /\ (events[i].type = "tagopen" /\ At(spans[i], Len(spans[i]) - 2) = "/")
                => events[i].isSelfClosing
          /\ events[i].type = "tagclose"
                => spans[i] = <<"<", "/">> \o events[i].name \o <<">">>
    /\ (/\ closeRequested
        /\ raw = Written
        /\ \A i \in 1..Len(events) : LeavesTagsAlone(events[i]))
          => /\ _tagStack = <<>>
             /\ error = NoError
             /\ state = "closed"

\* C16, on steps: a step that fails nothing and emits only self-closing
\* tagopen events and other non-tag events leaves the open-tag stack
\* unchanged.
SelfClosingTagKeepsStack ==
    [][(/\ error' = NoError
        /\ IsPrefix(events, events')
        /\ \A i \in (Len(events) + 1)..Len(events') : LeavesTagsAlone(events'[i]))
          => _tagStack' = _tagStack]_vars

\* C16: both parts.
SelfClosingTag == [](SelfClosingTagState) /\ SelfClosingTagKeepsStack

\* '<a>' is open and a self-closing '<a />' has just been parsed after it:
\* the stack still holds the one open tag.
SelfClosingInsideOpenTag ==
    /\ Written = <<"<", "a", ">", "<", "a", " ", "/", ">">>
    /\ Len(events) = 2
    /\ events[2].isSelfClosing
    /\ _tagStack = <<<<"a">>>>
    /\ outcome = "fulfilled"

---------------------------------------------------------------------------
(* C17 *)

\* C17: when the written text not covered by events begins with a complete
\* tag whose first character after '<' is whitespace, the stream has failed
\* with 'Tag names may not start with whitespace'; no tagopen event has an
\* name starting with whitespace; and after a failure with this message the
\* open-tag stack holds exactly the tags that the emitted events left open,
\* so the rejected tag has not modified it.
WhitespaceBeforeTagNameFails ==
    /\ (/\ At(Rest, 0) = "<"
        /\ At(Rest, 1) \in Whitespace
        /\ UnquotedCloses(Rest) # {})
          => /\ error = Error("Tag names may not start with whitespace", <<>>)
             /\ state = "errored"
    /\ \A i \in 1..Len(events) :
          events[i].type = "tagopen" => At(spans[i], 1) \notin Whitespace
    /\ error.message = "Tag names may not start with whitespace"
          => /\ At(Rest, 0) = "<"
             /\ At(Rest, 1) \in Whitespace
             /\ _tagStack = OpenNames(events)

\* '<a>' is open and '< b>' has been rejected in a later chunk: no tagopen
\* for it, and the stack still holds 'a' only.
InvalidTagAfterOpenTag ==
    /\ split
    /\ Written = <<"<", "a", ">", "<", " ", "b", ">">>
    /\ error.message = "Tag names may not start with whitespace"
    /\ Len(events) = 1
    /\ _tagStack = <<<<"a">>>>

---------------------------------------------------------------------------
(* C18 *)

\* C18: parseEntities always returns a string; in it each of the five named
\* references and each well-formed decimal or hexadecimal reference of the
\* text is replaced by its character, and every other character, those of
\* unrecognized '&...' sequences included, is as in the text; a text
\* without '&' is returned as it is.
EntitiesDecoded ==
    result.done
       => /\ result.error = ""
          /\ result.value = meaning.value
          /\ (\A i \in 1..Len(given) : given[i] # "&") => result.value = given

\* '&unknown;&lt;' has been decoded to '&unknown;<'.
UnknownKeptBeforeReference ==
    /\ result.done
    /\ given = <<"&", "u", "n", "k", "n", "o", "w", "n", ";", "&", "l", "t", ";">>
    /\ result.value = <<"&", "u", "n", "k", "n", "o", "w", "n", ";", "<">>

---------------------------------------------------------------------------
(* C19 *)

\* C19: on whitespace-separated well-formed attributes, with or without
\* trailing whitespace, parseAttrs returns the mapping from each name to
\* its value as written; the last value of a repeated name wins.
AttrsParsed ==
    (result.done /\ meaning.error = "")
       => /\ result.error = ""
          /\ result.value = meaning.value

\* Two attributes named a, valued x and then 'y z', have been parsed: the
\* one name has its last value.
RepeatedAttrLastWins ==
    /\ result.done
    /\ given = <<" ", "a", "=", "\"", "x", "\"",
                 " ", "a", "=", "'", "y", " ", "z", "'">>
    /\ DOMAIN result.value = {<<"a">>}
    /\ result.value[<<"a">>] = <<"y", " ", "z">>

---------------------------------------------------------------------------
(* C20 *)

\* C20: when well-formed attributes are followed by a name at the end of
\* the string, by a name followed by whitespace and another name, by a value
\* that does not start with a quote, or by a value whose opening quote does
\* not occur again, parseAttrs fails with the error of that case and
\* returns no mapping.
AttrsRejected ==
    (result.done /\ meaning.error # "")
       => /\ result.error = meaning.error
          /\ result.value = NoAttrs

\* A value opened by a double quote and followed only by a single quote,
\* after a well-formed attribute, has been rejected as unclosed.
UnclosedValueRejected ==
    /\ result.done
    /\ given = <<" ", "b", "=", "\"", ">", "\"", " ", "a", "=", "\"", "x", "'">>
    /\ result.error = "Unclosed attribute value"
    /\ result.value = NoAttrs

---------------------------------------------------------------------------
(* C21 *)

\* The written text not covered by events begins with '<!--' and holds a
\* later '--'.
DoubleDashInOpenComment ==
    /\ Slice(Rest, 0, 4) = <<"<", "!", "-", "-">>
    /\ FirstDoubleDash(Rest) # -1

\* C21 as stated: when the first '--' after '<!--' is followed by anything
\* but '>', the end of the input at close included, the stream has failed
\* with 'Unexpected -- inside comment'.
DoubleDashFailsAlsoAtEnd ==
    (/\ DoubleDashInOpenComment
     /\ At(Rest, FirstDoubleDash(Rest) + 2) # ">"
     /\ At(Rest, FirstDoubleDash(Rest) + 2) = undefined => closeRequested)
       => error.message = "Unexpected -- inside comment: "

\* C21, amended: when the first '--' after '<!--' is followed by a character
\* other than '>', the stream has failed with 'Unexpected -- inside comment';
\* when the written text ends right after that '--', the comment is pending
\* without an error, and once the stream is closed there it has failed with
\* 'Unclosed comment'.
DoubleDashThenCharacterOrEnd ==
    DoubleDashInOpenComment
       => LET after == At(Rest, FirstDoubleDash(Rest) + 2)
          IN  /\ after \notin {undefined, ">"}
                    => /\ error.message = "Unexpected -- inside comment: "
                       /\ ~closeRequested
              /\ (after = undefined /\ ~closeRequested)
                    => /\ error = NoError
                       /\ _waiting = [token |-> "comment", data |-> Rest]
              /\ (after = undefined /\ closeRequested)
                    => /\ error = Error("Unclosed comment", <<>>)
                       /\ state = "errored"

\* The stream was closed right after '<!----': it failed with 'Unclosed
\* comment'.
ClosedAfterDoubleDash ==
    /\ closeRequested
    /\ Written = <<"<", "!", "-", "-", "-", "-">>
    /\ error = Error("Unclosed comment", <<>>)
    /\ events = <<>>

---------------------------------------------------------------------------
(* C22 *)

\* text differs from pat at some index that both have.
Diverges(text, pat) ==
    \E i \in 1..Min(Len(text), Len(pat)) : text[i] # pat[i]

\* The written text not covered by events begins with '<!' followed by
\* characters that are neither a prefix of '[CDATA[' nor of '--'.
BrokenDeclarationPrefix ==
    /\ Slice(Rest, 0, 2) = <<"<", "!">>
    /\ Diverges(SliceFrom(Rest, 2), <<"[", "C", "D", "A", "T", "A", "[">>)
    /\ Diverges(SliceFrom(Rest, 2), <<"-", "-">>)

\* C22: whenever the text after '<!' is neither a prefix of '[CDATA[' nor of
\* '--', the stream has failed with 'Unrecognized sequence: <!' followed by
\* the character after '<!'; such text is not pending as a CDATA section and
\* is not reported as 'Unclosed CDATA section'.
BrokenDeclarationPrefixFails ==
    BrokenDeclarationPrefix
       => /\ error = Error("Unrecognized sequence: <!", <<At(Rest, 2)>>)
          /\ _waiting.token # "cdata"
          /\ error.message # "Unclosed CDATA section"

---------------------------------------------------------------------------
(* C23 *)

\* The 0-based indices k >= 1 of text that hold a '>' preceded, after the
\* first character, by an even number of double quotes and an even number
\* of single quotes.
CloseOutsideBothQuotes(text) ==
    {k \in 1..(Len(text) - 1) :
        /\ At(text, k) = ">"
        /\ Cardinality({j \in 1..(k - 1) : At(text, j) = "\""}) % 2 = 0
        /\ Cardinality({j \in 1..(k - 1) : At(text, j) = "'"}) % 2 = 0}

\* C23: the source text of every tagopen event ends at its first '>' that
\* is outside double-quoted and outside single-quoted values, so that the
\* attrs of the event hold every quoted value whole.
TagEndsOutsideBothQuotes ==
    \A i \in 1..Len(events) :
       events[i].type = "tagopen"
          => /\ CloseOutsideBothQuotes(spans[i]) # {}
             /\ \A k \in CloseOutsideBothQuotes(spans[i]) : k >= Len(spans[i]) - 1

---------------------------------------------------------------------------
(* C24 *)

\* C24: the text quoted by an 'Unexpected -- inside comment' error is the
\* written text from the comment's '<!--' to the end of what had been
\* written when the stream failed, so its length follows the chunking.
UnexpectedDashQuotesAvailableInput ==
    error.message = "Unexpected -- inside comment: "
       => /\ error.arg = <<"'">> \o Rest \o <<"'">>
          /\ Slice(Rest, 0, 4) = <<"<", "!", "-", "-">>
          /\ Len(error.arg) = pos - Len(raw) + 2

\* '<!-- -- -->' failed in a chunk that reached the end of the document:
\* the quoted text goes on after the offending '--' and the character that
\* follows it.
QuotedTextPastOffendingDash ==
    /\ error.message = "Unexpected -- inside comment: "
    /\ split
    /\ doc = <<"<", "!", "-", "-", " ", "-", "-", " ", "-", "-", ">">>
    /\ pos = Len(doc)
    /\ Len(Rest) > FirstDoubleDash(Rest) + 3

---------------------------------------------------------------------------
(* C25 *)

\* data is what a pending token of the given kind may hold.
PendingMatchesKind(token, data) ==
    CASE token = "text" ->
            data # <<>> /\ \A i \in 1..Len(data) : data[i] # "<"
      [] token = "markupDeclaration" ->
            data = <<"<", "!">>
      [] token = "cdata" ->
            Slice(data, 0, 3) = <<"<", "!", "[">>
      [] token = "comment" ->
            Slice(data, 0, 3) = <<"<", "!", "-">>
      [] token = "processinginstruction" ->
            Slice(data, 0, 2) = <<"<", "?">>
      [] token = "tagopen" ->
            At(data, 0) = "<" /\ UnquotedCloses(data) = {}
      [] OTHER -> FALSE

\* C25: while the stream is writable and has not failed, a pending partial
\* token is the written text that no event covers, from the first character
\* of the token on, and its text matches its kind; there is one waiting
\* slot, holding one kind and one text.
PendingTokenWellFormed ==
    (state = "writable" /\ error = NoError /\ _waiting # NotWaiting)
       => /\ _waiting.data = Rest
          /\ PendingMatchesKind(_waiting.token, _waiting.data)
          /\ DOMAIN _waiting = {"token", "data"}

\* A tag is pending whose text holds a '>' inside double quotes.
PendingTagWithQuotedClose ==
    /\ state = "writable"
    /\ split
    /\ _waiting = [token |-> "tagopen",
                   data |-> <<"<", "b", " ", "c", "=", "\"", ">">>]

---------------------------------------------------------------------------
(* C26 *)

\* C26: the name of every tagclose event is the text of its closing tag
\* between '</' and '>', equal character for character to the innermost
\* open name; and when the written text not covered by events begins with a
\* complete closing tag that is the innermost open name followed by
\* whitespace, the stream has failed with 'Unclosed tag: ' and that name.
ClosingTagNameVerbatim ==
    /\ \A i \in 1..Len(events) :
          events[i].type = "tagclose"
             => LET open == OpenNames(SubSeq(events, 1, i - 1))
                IN  /\ events[i].name = Slice(spans[i], 2, Len(spans[i]) - 1)
                    /\ open # <<>>
                    /\ Slice(spans[i], 2, Len(spans[i]) - 1) = open[Len(open)]
    /\ LET open == OpenNames(events)
           closes == UnquotedCloses(Rest)
       IN  (/\ Slice(Rest, 0, 2) = <<"<", "/">>
            /\ closes # {}
            /\ open # <<>>
            /\ \E k \in closes :
                  /\ \A j \in closes : k <= j
                  /\ Slice(Rest, 2, k) = open[Len(open)] \o <<" ">>)
              => /\ error = Error("Unclosed tag: ", open[Len(open)])
                 /\ state = "errored"

\* '<a></a >' has been written in several chunks: tagopen a is the only
\* event and the stream failed with 'Unclosed tag: a'.
ClosingTagWithSpaceRejected ==
    /\ split
    /\ Written = <<"<", "a", ">", "<", "/", "a", " ", ">">>
    /\ Len(events) = 1
    /\ error = Error("Unclosed tag: ", <<"a">>)

---------------------------------------------------------------------------
(* C27 *)

\* While write is scanning, the cursor is inside the input or the loop has
\* been left by a break or a throw.
CursorInRange ==
    outcome = "pending" => cursor = Stop \/ cursor \in 0..Len(scanned)

\* One pass of the loop either emits at least one event and moves the cursor
\* forward, staying inside the input; or buffers the rest of the input from
\* some index at or after the cursor and leaves the loop; or fails.
PassAdvancesOrStops ==
    (outcome = "pending" /\ outcome' = "pending")
       => \/ /\ error' = NoError
             /\ cursor' > cursor
             /\ cursor' <= Len(scanned)
             /\ Len(events') > Len(events)
             /\ _waiting' = NotWaiting
          \/ /\ error' = NoError
             /\ cursor' = Stop
             /\ _waiting' # NotWaiting
             /\ Len(_waiting'.data) <= Len(scanned) - cursor
             /\ _waiting'.data = SliceFrom(scanned, Len(scanned) - Len(_waiting'.data))
          \/ /\ error' # NoError
             /\ cursor' = Stop

\* C27: every write terminates: each pass of the scanning loop moves the
\* cursor strictly forward past an emitted token, or buffers the remainder
\* and stops, or fails; the cursor stays within the input; and a write that
\* has begun returns or fails.
EveryWriteTerminates ==
    /\ [](CursorInRange)
    /\ [][PassAdvancesOrStops]_vars
    /\ (outcome = "pending") ~> (outcome \in {"fulfilled", "failed"})

\* The loop has emitted a token and has more input to scan.
LoopBetweenTokens ==
    /\ outcome = "pending"
    /\ cursor > 0
    /\ cursor < Len(scanned)
    /\ events # <<>>
    /\ split

---------------------------------------------------------------------------
(* C28 *)

\* The error close raises for a pending partial token of the given kind.
UnclosedTokenError(token) ==
    IF token = "cdata" THEN Error("Unclosed CDATA section", <<>>)
    ELSE IF token = "comment" THEN Error("Unclosed comment", <<>>)
    ELSE IF token = "processinginstruction"
    THEN Error("Unclosed processing instruction", <<>>)
    ELSE Error("Unclosed tag", <<>>)

\* A close step taken while tags are open: a pending partial tag, comment,
\* CDATA section or processing instruction gives the error of that token
\* and no event; a pending text is emitted and the open tags are reported.
CloseWithOpenTags ==
    (state = "writable" /\ ~closeRequested /\ closeRequested'
       /\ _tagStack # <<>>)
       => /\ _waiting.token \in MarkupKinds \ {"markupDeclaration"}
               => /\ error' = UnclosedTokenError(_waiting.token)
                  /\ error'.message # "Unclosed tags: "
                  /\ events' = events
          /\ _waiting.token = "text"
               => /\ events' = Append(events, [type |-> "text",
                                               contents |-> _waiting.data])
                  /\ error' = Error("Unclosed tags: ", Join(_tagStack))

---------------------------------------------------------------------------
(* C29 *)

\* C29: writing an empty chunk in a state that has not failed changes
\* nothing: no event, no error, the same pending token (kind and text) and
\* the same open-tag stack.
EmptyWriteIsNoOp ==
    error = NoError => write(Sink, <<>>) = Sink

\* A comment is pending inside an open tag, and an empty write puts the same
\* pending comment back.
EmptyWriteKeepsPendingComment ==
    /\ state = "writable"
    /\ split
    /\ _tagStack # <<>>
    /\ _waiting.token = "comment"
    /\ _waiting.data = <<"<", "!", "-", "-">>
    /\ write(Sink, <<>>)._waiting = _waiting
    /\ write(Sink, <<>>).events = events

---------------------------------------------------------------------------
(* C30 *)

\* data, pending under the given kind, holds the end of its token: the '<'
\* that ends a text run, ']]>' after '<![', '-->' after '<!--', '?>' after
\* '<?', or a '>' outside double quotes in a tag.
HoldsTokenEnd(token, data) ==
    CASE token = "text" -> \E i \in 1..Len(data) : data[i] = "<"
      [] token = "markupDeclaration" -> \E i \in 1..Len(data) : data[i] = ">"
      [] token = "cdata" -> IndexOf(data, <<"]", "]", ">">>, 3) # -1
      [] token = "comment" -> IndexOf(data, <<"-", "-", ">">>, 4) # -1
      [] token = "processinginstruction" -> IndexOf(data, <<"?", ">">>, 2) # -1
      [] token \in {"tagopen", "tagclose"} -> UnquotedCloses(data) # {}
      [] OTHER -> FALSE

\* C30: prompt emission: after a write that returned without error, the
\* written text is the source text of the emitted events followed by the
\* pending data, and the pending data does not hold the end of its token;
\* so every construct whose end has been written has been emitted.
PromptEmission ==
    (state = "writable" /\ error = NoError)
       => /\ Len(spans) = Len(events)
          /\ Concat(spans) \o _waiting.data = Written
          /\ ~HoldsTokenEnd(_waiting.token, _waiting.data)

\* A write delivered the '<' after a text run and the start of a comment:
\* the text has been emitted and the comment is pending.
TextEmittedBeforePendingComment ==
    /\ state = "writable"
    /\ outcome = "fulfilled"
    /\ split
    /\ Written = <<"x", "<", "!", "-", "-">>
    /\ Len(events) = 1
    /\ events[1] = [type |-> "text", contents |-> <<"x">>]
    /\ _waiting = [token |-> "comment", data |-> <<"<", "!", "-", "-">>]

---------------------------------------------------------------------------
(* C31 *)

\* Two failures (or two successes) of the same kind: the same message and,
\* but for the text quoted after 'Unexpected -- inside comment', the same
\* argument.
SameOutcome(e, f) ==
    /\ e.message = f.message
    /\ e.message # "Unexpected -- inside comment: " => e.arg = f.arg

\* C31: chunking never changes the outcome, for erroneous input too.  A run
\* that has ended, by close or by a failed write, has emitted the events of
\* writing the same text as one chunk and closing, and has failed with the
\* same kind of error or succeeded like it; and when a write has failed, the
\* whole document written as one chunk emits the same events and fails with
\* the same kind of error.
ChunkingNeverChangesOutcome ==
    /\ (~locked /\ state \in {"closed", "errored"})
          => /\ events = WholeRun(Written).events
             /\ SameOutcome(error, WholeRun(Written).error)
    /\ (~locked /\ state = "errored" /\ ~closeRequested)
          => /\ events = WholeRun(doc).events
             /\ SameOutcome(error, WholeRun(doc).error)

\* A comment holding '--' was delivered in chunks and the write that brought
\* the character after '--' failed; the whole document fails alike, with a
\* longer quoted text.
ChunkedBadCommentFailsAlike ==
    /\ state = "errored"
    /\ split
    /\ ~closeRequested
    /\ doc = <<"<", "!", "-", "-", " ", "-", "-", " ", "-", "-", ">">>
    /\ error.message = "Unexpected -- inside comment: "
    /\ WholeRun(doc).error.message = error.message
    /\ WholeRun(doc).error.arg # error.arg

---------------------------------------------------------------------------
(* C32 *)

\* The number of tagclose events among the first i events.
ClosesAmong(i) ==
    Cardinality({j \in 1..i : events[j].type = "tagclose"})

\* The number of tagopen events that are not self-closing among the first i
\* events.
OpensAmong(i) ==
    Cardinality({j \in 1..i :
                    events[j].type = "tagopen" /\ ~events[j].isSelfClosing})

\* C32: a closing tag that meets an empty open-tag stack fails with
\* 'Unclosed tag: undefined', no tagclose is emitted for it and the stack
\* stays empty; so at every point of the event sequence the tagclose events
\* are no more than the tagopen events that are not self-closing.
ClosingTagOnEmptyStackFails ==
    /\ \A i \in 1..Len(events) : ClosesAmong(i) <= OpensAmong(i)
    /\ (/\ At(Rest, 0) = "<"
        /\ At(Rest, 1) = "/"
        /\ UnquotedCloses(Rest) # {}
        /\ ClosesAmong(Len(events)) = OpensAmong(Len(events)))
          => /\ state = "errored"
             /\ ~closeRequested
             /\ error = Error("Unclosed tag: ", UndefinedText)
             /\ _tagStack = <<>>

\* '</a>' after the self-closing '<a />': the stack was empty, the write
\* failed and the only event is the tagopen.
CloseAfterSelfClosingFails ==
    /\ split
    /\ Written = <<"<", "a", " ", "/", ">", "<", "/", "a", ">">>
    /\ Len(events) = 1
    /\ events[1].isSelfClosing
    /\ error = Error("Unclosed tag: ", UndefinedText)
    /\ _tagStack = <<>>

---------------------------------------------------------------------------
(* C33 *)

\* C33: every text event has non-empty contents without '<', which are its
\* source text, and the event before it is not a text event: a text run is
\* one event, also when it was written in several chunks or emitted by
\* close.
TextTokensMaximal ==
    \A i \in 1..Len(events) :
        events[i].type = "text"
           => /\ events[i].contents # <<>>
              /\ \A k \in 1..Len(events[i].contents) :
                    events[i].contents[k] # "<"
              /\ events[i].contents = spans[i]
              /\ i > 1 => events[i - 1].type # "text"

\* The text 'x ' was written in two chunks and close emitted it as the one
\* event of the stream.
ChunkedTextEmittedAsOne ==
    /\ state = "closed"
    /\ split
    /\ Written = <<"x", " ">>
    /\ events = <<[type |-> "text", contents |-> <<"x", " ">>]>>

====
